---- MODULE Spec2Model ----
(***************************************************************************)
(* Passkeys plugin (capacitor-passkeys): the three adapters (iOS, Android,  *)
(* web) as one state machine.  A behaviour fixes the platform in Init and   *)
(* then interleaves create()/get() calls of the hosting app with the steps  *)
(* of the native authenticator (the queued performRequests block or         *)
(* coroutine start, and the native completion).                             *)
(***************************************************************************)
EXTENDS Integers, Sequences, FiniteSets, TLC

\* Number of create()/get() calls one behaviour issues on the plugin instance.
MaxCalls == 2

\* nil / null / no call.
Nil == 0

Platforms == {"ios", "android", "web"}

\* The seven shared error codes (PasskeyErrorCode).
ErrorCodes ==
  {"cancelled", "notSupported", "invalidDomain", "noCredentials",
   "securityError", "invalidRequest", "unknownError"}

(***************************************************************************)
(* JSON-like option values: a field of the call's options is undefined, a   *)
(* string (a sequence of one-character strings), a number, an object or an  *)
(* array.                                                                   *)
(***************************************************************************)
JUndef == [t |-> "undef"]
JStr(s) == [t |-> "str", v |-> s]
JNum == [t |-> "num"]
IsStr(x) == x.t = "str"
IsObj(x) == x.t = "obj"
JNull == [t |-> "null"]

\* A byte buffer (Data, ArrayBuffer).
Data(bytes) == [t |-> "data", v |-> bytes]

\* x ?? d
Coalesce(x, d) == IF x = JUndef THEN d ELSE x

(***************************************************************************)
(* Base64 / base64url.                                                      *)
(***************************************************************************)
Alphabet ==
  <<"A","B","C","D","E","F","G","H","I","J","K","L","M","N","O","P",
    "Q","R","S","T","U","V","W","X","Y","Z","a","b","c","d","e","f",
    "g","h","i","j","k","l","m","n","o","p","q","r","s","t","u","v",
    "w","x","y","z","0","1","2","3","4","5","6","7","8","9","+","/">>

AlphabetChars == {Alphabet[i] : i \in 1..64}

\* String.replacingOccurrences(of:with:) / String.replace(/x/g, y) on one character.
ReplaceAll(s, from, to) ==
  [i \in 1..Len(s) |-> IF s[i] = from THEN to ELSE s[i]]

Repeat(ch, n) == [i \in 1..n |-> ch]

Sextet(ch) == (CHOOSE i \in 1..64 : Alphabet[i] = ch) - 1

\* Number of trailing '=' of s.
RECURSIVE TrailingPad(_)
TrailingPad(s) ==
  IF Len(s) > 0 /\ s[Len(s)] = "="
  THEN 1 + TrailingPad(SubSeq(s, 1, Len(s) - 1))
  ELSE 0

\* Bytes of the sextets q (the bits that do not fill a byte are dropped).
RECURSIVE SextetsToBytes(_)
SextetsToBytes(q) ==
  IF Len(q) < 2 THEN <<>>
  ELSE IF Len(q) = 2 THEN <<q[1] * 4 + (q[2] \div 16)>>
  ELSE IF Len(q) = 3
    THEN <<q[1] * 4 + (q[2] \div 16), (q[2] % 16) * 16 + (q[3] \div 4)>>
  ELSE <<q[1] * 4 + (q[2] \div 16), (q[2] % 16) * 16 + (q[3] \div 4),
         (q[3] % 4) * 64 + q[4]>>
       \o SextetsToBytes(SubSeq(q, 5, Len(q)))

\* Standard base64 decoding of a padded text, as Data(base64Encoded:) and
\* atob() do it: the length is a multiple of 4, at most two '=' and only at
\* the end, every other character in the alphabet.  ok = FALSE is nil (Swift)
\* or a thrown InvalidCharacterError (atob).
StdBase64Decode(s) ==
  LET pad  == TrailingPad(s)
      body == SubSeq(s, 1, Len(s) - pad)
      ok   == /\ Len(s) % 4 = 0
              /\ pad <= 2
              /\ \A i \in 1..Len(body) : body[i] \in AlphabetChars
  IN  IF ok
      THEN [ok |-> TRUE,
            bytes |-> SextetsToBytes([i \in 1..Len(body) |-> Sextet(body[i])])]
      ELSE [ok |-> FALSE, bytes |-> <<>>]

\* The decoder without its padding step.
IOS_base64UrlDecode_NoPadding(base64url) ==
  StdBase64Decode(ReplaceAll(ReplaceAll(base64url, "-", "+"), "_", "/"))

\* iOS base64UrlDecode: Data? (ok = FALSE is nil).
IOS_base64UrlDecode(base64url) ==
  LET base64    == ReplaceAll(ReplaceAll(base64url, "-", "+"), "_", "/")
      remainder == Len(base64) % 4
      padded    == IF remainder > 0
                   THEN base64 \o Repeat("=", 4 - remainder)
                   ELSE base64
  IN  StdBase64Decode(padded)

\* web base64UrlToArrayBuffer: ok = FALSE is atob() throwing a DOMException.
base64UrlToArrayBuffer(base64url) ==
  LET base64 == ReplaceAll(ReplaceAll(base64url, "-", "+"), "_", "/")
      padded == base64 \o Repeat("=", (4 - (Len(base64) % 4)) % 4)
  IN  StdBase64Decode(padded)

\* Base64 encoding of the bytes b over an alphabet, with or without '='
\* padding of the last group.
RECURSIVE Base64Encode(_, _, _)
Base64Encode(b, alphabet, padding) ==
  IF Len(b) = 0 THEN <<>>
  ELSE IF Len(b) = 1
    THEN <<alphabet[(b[1] \div 4) + 1], alphabet[(b[1] % 4) * 16 + 1]>>
         \o (IF padding THEN <<"=", "=">> ELSE <<>>)
  ELSE IF Len(b) = 2
    THEN <<alphabet[(b[1] \div 4) + 1],
           alphabet[(b[1] % 4) * 16 + (b[2] \div 16) + 1],
           alphabet[(b[2] % 16) * 4 + 1]>>
         \o (IF padding THEN <<"=">> ELSE <<>>)
  ELSE <<alphabet[(b[1] \div 4) + 1],
         alphabet[(b[1] % 4) * 16 + (b[2] \div 16) + 1],
         alphabet[(b[2] % 16) * 4 + (b[3] \div 64) + 1],
         alphabet[(b[3] % 64) + 1]>>
       \o Base64Encode(SubSeq(b, 4, Len(b)), alphabet, padding)

\* Data.base64EncodedString() / btoa(binary): standard alphabet, padded.
StdBase64Encode(b) == Base64Encode(b, Alphabet, TRUE)

\* replacingOccurrences(of: "=", with: ""): every '=' removed.
RemoveAll(s, ch) == SelectSeq(s, LAMBDA c : c # ch)

\* iOS base64UrlEncode.
IOS_base64UrlEncode(data) ==
  RemoveAll(ReplaceAll(ReplaceAll(StdBase64Encode(data), "+", "-"), "/", "_"), "=")

\* The encoder without its two replace(/\+/g, '-') and replace(/\//g, '_').
arrayBufferToBase64Url_StandardAlphabet(buffer) ==
  LET base64 == StdBase64Encode(buffer)
  IN  SubSeq(base64, 1, Len(base64) - TrailingPad(base64))

\* web arrayBufferToBase64Url: replace(/=+$/, '') removes the trailing '='.
arrayBufferToBase64Url(buffer) ==
  LET base64   == StdBase64Encode(buffer)
      replaced == ReplaceAll(ReplaceAll(base64, "+", "-"), "/", "_")
  IN  SubSeq(replaced, 1, Len(replaced) - TrailingPad(replaced))

\* The alphabet of android.util.Base64 under URL_SAFE.
UrlSafeAlphabet == ReplaceAll(ReplaceAll(Alphabet, "+", "-"), "/", "_")

\* Android base64UrlEncode: Base64.URL_SAFE or NO_WRAP or NO_PADDING.
Android_base64UrlEncode(bytes) == Base64Encode(bytes, UrlSafeAlphabet, FALSE)

\* Android base64UrlDecode: '=' is added for the lengths 2 and 3 mod 4 only;
\* ok = FALSE is Base64.decode throwing IllegalArgumentException.
Android_base64UrlDecode(input) ==
  LET base64 == ReplaceAll(ReplaceAll(input, "-", "+"), "_", "/")
      padded == CASE Len(base64) % 4 = 2 -> base64 \o <<"=", "=">>
                  [] Len(base64) % 4 = 3 -> base64 \o <<"=">>
                  [] OTHER -> base64
  IN  StdBase64Decode(padded)

(***************************************************************************)
(* The options the hosting app passes to create() and get().                *)
(***************************************************************************)
TxtAQID    == <<"A", "Q", "I", "D">>      \* three bytes, no padding needed
TxtAQ      == <<"A", "Q">>                \* one byte, two '=' to add
TxtUrlSafe == <<"-", "_", "8">>           \* URL-safe characters, one '=' to add
TxtLen1    == <<"A">>                     \* length 1 mod 4: not decodable
TxtBadChar == <<"A", "Q", "*", "D">>      \* a character outside the alphabet

GoodTexts == {TxtAQID, TxtAQ, TxtUrlSafe}
BadTexts  == {TxtLen1, TxtBadChar}

SomeName == JStr(<<"n">>)

JObjRp(id, name) == [t |-> "obj", id |-> id, name |-> name]
JObjUser(id, name, displayName) ==
  [t |-> "obj", id |-> id, name |-> name, displayName |-> displayName]

\* One entry of pubKeyCredParams / allowCredentials.
CredParam(type, alg) == [t |-> "obj", type |-> type, alg |-> alg]
JArr(items) == [t |-> "arr", items |-> items]

ES256 == CredParam(JStr(<<"public-key">>), [t |-> "num", v |-> -7])
RS256 == CredParam(JStr(<<"public-key">>), [t |-> "num", v |-> -257])

\* pubKeyCredParams as the app may pass it: absent, well-formed (one entry,
\* two entries in the order opposite to the defaults', none), or with an
\* entry that is no object / lacks "alg".
PubKeyCredParamsInputs ==
  {JUndef, JArr(<<RS256>>), JArr(<<RS256, ES256>>), JArr(<<>>),
   JArr(<<ES256, JNum>>),
   JArr(<<CredParam(JStr(<<"public-key">>), JUndef)>>)}

\* authenticatorSelection as the app may pass it.
AuthenticatorSelection(attachment, residentKey, userVerification) ==
  [t |-> "obj", authenticatorAttachment |-> attachment,
   residentKey |-> residentKey, userVerification |-> userVerification]

\* The selection both adapters use when the app passes none.
DefaultAuthenticatorSelection ==
  AuthenticatorSelection(JStr(<<"platform">>), JStr(<<"required">>),
                         JStr(<<"required">>))

\* authenticatorSelection as the app may pass it: absent, only
\* userVerification, an empty object, all three sub-fields.
AuthenticatorSelectionInputs ==
  {JUndef,
   AuthenticatorSelection(JUndef, JUndef, JStr(<<"preferred">>)),
   AuthenticatorSelection(JUndef, JUndef, JUndef),
   AuthenticatorSelection(JStr(<<"cross-platform">>), JStr(<<"discouraged">>),
                          JStr(<<"discouraged">>))}

CreateOptions(challenge, rp, user, pubKeyCredParams) ==
  [challenge |-> challenge, rp |-> rp, user |-> user,
   pubKeyCredParams |-> pubKeyCredParams,
   authenticatorSelection |-> JUndef, attestation |-> JUndef,
   timeout |-> JUndef]

ValidCreate ==
  CreateOptions(JStr(TxtAQID), JObjRp(SomeName, SomeName),
                JObjUser(JStr(TxtAQ), SomeName, SomeName), JUndef)

Opt(present, v) == IF present THEN v ELSE JUndef

\* The requests create() is called with: the six required fields all
\* present, all but one, all but the two that iOS does not test (rp.name and
\* user.displayName) or none; rp / user absent as a whole, fields of
\* the wrong type, every sample text as challenge and as user.id, the
\* pubKeyCredParams inputs and the authenticatorSelection inputs.
CreateRequests ==
  {CreateOptions(Opt(p[1], JStr(TxtAQID)),
                 JObjRp(Opt(p[2], SomeName), Opt(p[3], SomeName)),
                 JObjUser(Opt(p[4], JStr(TxtAQ)), Opt(p[5], SomeName),
                          Opt(p[6], SomeName)),
                 JUndef) :
     p \in {q \in [1..6 -> BOOLEAN] :
              \/ Cardinality({i \in 1..6 : ~q[i]}) \in {0, 1, 6}
              \/ {i \in 1..6 : ~q[i]} = {3, 6}}}
  \cup {[ValidCreate EXCEPT !.rp = JUndef], [ValidCreate EXCEPT !.user = JUndef],
        [ValidCreate EXCEPT !.challenge = JNum]}
  \cup {[ValidCreate EXCEPT !.challenge = JStr(x)] : x \in GoodTexts \cup BadTexts}
  \cup {[ValidCreate EXCEPT !.user.id = JStr(x)] : x \in GoodTexts \cup BadTexts}
  \cup {[ValidCreate EXCEPT !.pubKeyCredParams = k] : k \in PubKeyCredParamsInputs}
  \cup {[ValidCreate EXCEPT !.authenticatorSelection = a] :
          a \in AuthenticatorSelectionInputs}
  \cup {[ValidCreate EXCEPT !.attestation = JStr(<<"direct">>)]}

AllowCredential(type, id) == [t |-> "obj", type |-> type, id |-> id]

\* allowCredentials as the app may pass it: absent, empty, well-formed, with
\* an entry that lacks "type", or with an entry whose id is no base64url text.
AllowCredentialsInputs ==
  {JUndef, JArr(<<>>),
   JArr(<<AllowCredential(JStr(<<"public-key">>), JStr(TxtAQID))>>),
   JArr(<<AllowCredential(JUndef, JStr(TxtAQID))>>),
   JArr(<<AllowCredential(JStr(<<"public-key">>), JStr(TxtLen1))>>)}

GetOptions(challenge, rpId, allowCredentials) ==
  [challenge |-> challenge, rpId |-> rpId,
   allowCredentials |-> allowCredentials,
   userVerification |-> JUndef, timeout |-> JUndef]

ValidGet == GetOptions(JStr(TxtAQID), SomeName, JUndef)

GetRequests ==
  {GetOptions(Opt(p[1], JStr(TxtAQID)), Opt(p[2], SomeName), JUndef) :
     p \in [1..2 -> BOOLEAN]}
  \cup {[ValidGet EXCEPT !.challenge = JNum], [ValidGet EXCEPT !.rpId = JNum]}
  \cup {[ValidGet EXCEPT !.challenge = JStr(x)] : x \in GoodTexts \cup BadTexts}
  \cup {[ValidGet EXCEPT !.allowCredentials = a] : a \in AllowCredentialsInputs}
  \cup {[ValidGet EXCEPT !.userVerification = JStr(<<"preferred">>)]}

NoOptions == [none |-> TRUE]

(***************************************************************************)
(* State.                                                                   *)
(***************************************************************************)
VARIABLES
  platform,        \* the adapter this plugin instance is
  calls,           \* the plugin calls issued so far, by call id 1..Len(calls)
  currentCall,     \* iOS: the stored CAPPluginCall (a call id) or Nil
  authController,  \* iOS: the retained ASAuthorizationController or Nil
  mainQueue,       \* iOS DispatchQueue.main / Android Dispatchers.Main: queued blocks
  native,          \* the native requests, by the id of the call that issued them
  last,            \* the step just taken: operation, call, options, native
                   \* outcome, the request handed over, the result built
  codec,           \* the value the adapter's base64url helpers work on
  server           \* the example relying-party server: its challenges Map, the
                   \* challenges its clients hold, the request just served

vars == <<platform, calls, currentCall, authController, mainQueue, native, last,
          codec, server>>

\* A plugin call as the bridge hands it to the plugin: nothing settled yet.
NewCall(kind) == [kind |-> kind, settles |-> <<>>, escaped |-> "none"]

\* No request object was handed to the platform / no result object was built.
NoRequest == [none |-> TRUE]
NoResult == [none |-> TRUE]

\* A field of a native request object that was never assigned.
Unset == "unset"

\* The plugin's mutable state as one value, threaded through the statements
\* of a handler in the order the code executes them.
PluginState ==
  [calls |-> calls, currentCall |-> currentCall,
   authController |-> authController, mainQueue |-> mainQueue,
   native |-> native, request |-> NoRequest, result |-> NoResult]

\* The handler hands this request object to the platform API.
handOver(st, request) == [st EXCEPT !.request = request]

\* The handler builds this result object for call.resolve / return.
formatted(st, result) == [st EXCEPT !.result = result]

\* How a call was settled.  structured: the caller got a {code, message}
\* pair; origin: the native request whose completion settled it (Nil when the
\* handler itself did); signal: that completion's native signal; slot: the
\* value of currentCall at the moment the caller was notified.
Settlement(how, structured, code, message, signal, origin, slot) ==
  [how |-> how, structured |-> structured, code |-> code, message |-> message,
   signal |-> signal, origin |-> origin, slot |-> slot]

\* call.reject(message, code)
reject(st, c, message, code, signal, origin) ==
  [st EXCEPT !.calls[c].settles =
     Append(@, Settlement("reject", TRUE, code, message, signal, origin,
                          st.currentCall))]

\* call.resolve(result)
resolve(st, c, signal, origin) ==
  [st EXCEPT !.calls[c].settles =
     Append(@, Settlement("resolve", TRUE, "", "", signal, origin,
                          st.currentCall))]

\* A native request: what it is for, where it stands, and the pending-ceremony
\* slot as it was when the request was handed to the main queue.
NativeRequest(kind, phase, st) ==
  [kind |-> kind, phase |-> phase,
   slotAtDispatch |-> st.currentCall, ctrlAtDispatch |-> st.authController]

\* DispatchQueue.main.async { controller.performRequests() } / scope.launch { ... }
dispatch(st, c, kind) ==
  [st EXCEPT !.mainQueue = Append(@, c),
             !.native = @ @@ (c :> NativeRequest(kind, "queued", st))]

(***************************************************************************)
(* iOS adapter (PasskeysPlugin.swift).                                      *)
(***************************************************************************)

\* A ceremony begun the other way round: the request is handed to the main
\* queue first and the call stored afterwards.
beginCeremony_PerformFirst(st, c, kind) ==
  LET s1 == dispatch(st, c, kind)
      s2 == [s1 EXCEPT !.currentCall = c]
  IN  [s2 EXCEPT !.authController = c]

\* The tail of create / get: self.currentCall = call; the controller is
\* created and retained in self.authController; performRequests() is queued
\* on the main queue.
beginCeremony(st, c, kind) ==
  LET s1 == [st EXCEPT !.currentCall = c]
      s2 == [s1 EXCEPT !.authController = c]
  IN  dispatch(s2, c, kind)

\* The result of isSupported(): supported and the platform's details.
IsSupportedResult(supported, details) ==
  [supported |-> supported, details |-> details]

\* isSupported(_ call:): both branches of `if #available(iOS 16.0, *)`
\* resolve.
IOS_isSupported(st, c, available) ==
  resolve(formatted(st, IsSupportedResult(
                          available,
                          [platformAuthenticatorAvailable |-> available])),
          c, "none", Nil)

\* The switch on the userVerification string; without a string the
\* request's userVerificationPreference is never assigned.
IOS_userVerificationPreference(v) ==
  IF ~IsStr(v) THEN Unset
  ELSE IF v.v \in {<<"required">>, <<"preferred">>, <<"discouraged">>} THEN v.v[1]
  ELSE "required"

\* provider.createCredentialRegistrationRequest(challenge:name:userID:) and
\* the authenticatorSelection block of create.
IOS_registrationRequest(o) ==
  [relyingPartyIdentifier |-> o.rp.id.v,
   challenge |-> IOS_base64UrlDecode(o.challenge.v).bytes,
   name |-> o.user.name.v,
   userID |-> IOS_base64UrlDecode(o.user.id.v).bytes,
   userVerificationPreference |->
     IF IsObj(o.authenticatorSelection)
     THEN IOS_userVerificationPreference(o.authenticatorSelection.userVerification)
     ELSE Unset]

\* allowCredentials.compactMap { ... }: the decoded ids of the entries that
\* have a decodable string id.
RECURSIVE compactMap(_)
compactMap(items) ==
  IF items = <<>> THEN <<>>
  ELSE LET item == Head(items)
       IN  (IF IsStr(item.id) /\ IOS_base64UrlDecode(item.id.v).ok
            THEN <<IOS_base64UrlDecode(item.id.v).bytes>> ELSE <<>>)
           \o compactMap(Tail(items))

\* The allowCredentials block of get: the array must cast to [[String: Any]];
\* request.allowedCredentials is assigned only a non-empty list.
IOS_allowedCredentials(a) ==
  IF a.t = "arr" /\ \A i \in 1..Len(a.items) : IsObj(a.items[i])
  THEN IF compactMap(a.items) # <<>> THEN compactMap(a.items) ELSE Unset
  ELSE Unset

\* provider.createCredentialAssertionRequest(challenge:) and the optional
\* blocks of get.
IOS_assertionRequest(o) ==
  [relyingPartyIdentifier |-> o.rpId.v,
   challenge |-> IOS_base64UrlDecode(o.challenge.v).bytes,
   allowedCredentials |-> IOS_allowedCredentials(o.allowCredentials),
   userVerificationPreference |-> IOS_userVerificationPreference(o.userVerification)]

\* create(_ call:): the guards in order, then store the call, retain the
\* controller, queue performRequests().
IOS_create(st, c, o) ==
  IF ~IsStr(o.challenge)
    THEN reject(st, c, "Missing required parameter: challenge",
                "invalidRequest", "none", Nil)
  ELSE IF ~(IsObj(o.rp) /\ IsStr(o.rp.id))
    THEN reject(st, c, "Missing required parameter: rp.id",
                "invalidRequest", "none", Nil)
  ELSE IF ~(IsObj(o.user) /\ IsStr(o.user.id) /\ IsStr(o.user.name))
    THEN reject(st, c, "Missing required parameters: user.id, user.name",
                "invalidRequest", "none", Nil)
  ELSE IF ~IOS_base64UrlDecode(o.challenge.v).ok
    THEN reject(st, c, "Invalid base64url encoding for challenge",
                "invalidRequest", "none", Nil)
  ELSE IF ~IOS_base64UrlDecode(o.user.id.v).ok
    THEN reject(st, c, "Invalid base64url encoding for user.id",
                "invalidRequest", "none", Nil)
  ELSE beginCeremony(handOver(st, IOS_registrationRequest(o)), c, "registration")

\* get(_ call:) with self.currentCall = call as its first statement, ahead of
\* the guards.
IOS_get_StoreFirst(st, c, o) ==
  LET s0 == [st EXCEPT !.currentCall = c]
  IN  IF ~IsStr(o.challenge)
        THEN reject(s0, c, "Missing required parameter: challenge",
                    "invalidRequest", "none", Nil)
      ELSE IF ~IsStr(o.rpId)
        THEN reject(s0, c, "Missing required parameter: rpId",
                    "invalidRequest", "none", Nil)
      ELSE IF ~IOS_base64UrlDecode(o.challenge.v).ok
        THEN reject(s0, c, "Invalid base64url encoding for challenge",
                    "invalidRequest", "none", Nil)
      ELSE beginCeremony(handOver(s0, IOS_assertionRequest(o)), c, "assertion")

\* get(_ call:) without the guard on base64UrlDecode(challengeB64): the
\* ceremony begins with whatever bytes there are.
IOS_get_NoDecodeGuard(st, c, o) ==
  IF ~IsStr(o.challenge)
    THEN reject(st, c, "Missing required parameter: challenge",
                "invalidRequest", "none", Nil)
  ELSE IF ~IsStr(o.rpId)
    THEN reject(st, c, "Missing required parameter: rpId",
                "invalidRequest", "none", Nil)
  ELSE beginCeremony(handOver(st, IOS_assertionRequest(o)), c, "assertion")

\* get(_ call:)
IOS_get(st, c, o) ==
  IF ~IsStr(o.challenge)
    THEN reject(st, c, "Missing required parameter: challenge",
                "invalidRequest", "none", Nil)
  ELSE IF ~IsStr(o.rpId)
    THEN reject(st, c, "Missing required parameter: rpId",
                "invalidRequest", "none", Nil)
  ELSE IF ~IOS_base64UrlDecode(o.challenge.v).ok
    THEN reject(st, c, "Invalid base64url encoding for challenge",
                "invalidRequest", "none", Nil)
  ELSE beginCeremony(handOver(st, IOS_assertionRequest(o)), c, "assertion")

\* The ASAuthorizationError codes, a code this build does not know, and an
\* Error that is no ASAuthorizationError.
IOSErrors ==
  {"canceled", "invalidResponse", "notHandled", "failed", "unknown",
   "futureCode", "notAuthorizationError"}

\* mapError(_ error:) -> (code, message)
mapError(error) ==
  CASE error = "canceled"        -> <<"cancelled", "User cancelled the operation">>
    [] error = "invalidResponse" -> <<"invalidRequest", "Invalid response from authenticator">>
    [] error = "notHandled"      -> <<"noCredentials", "No credentials available">>
    [] error = "failed"          -> <<"securityError", "Authorization failed">>
    [] error = "unknown"         -> <<"unknownError", "localizedDescription">>
    [] error = "futureCode"      -> <<"unknownError", "localizedDescription">>
    [] OTHER                     -> <<"unknownError", "localizedDescription">>

\* currentCall?.reject(...) / currentCall?.resolve(...)
rejectCurrent(st, message, code, signal, origin) ==
  IF st.currentCall = Nil THEN st
  ELSE reject(st, st.currentCall, message, code, signal, origin)

resolveCurrent(st, signal, origin) ==
  IF st.currentCall = Nil THEN st ELSE resolve(st, st.currentCall, signal, origin)

\* The clean-up that releases the controller and keeps the call.
clearSlot_KeepCall(st) == [st EXCEPT !.authController = Nil]

\* The defer block of didCompleteWithAuthorization, and the last two
\* statements of didCompleteWithError.
clearSlot(st) ==
  LET s1 == [st EXCEPT !.currentCall = Nil]
  IN  [s1 EXCEPT !.authController = Nil]

\* The userID of an assertion as the authenticator may return it: nil, empty,
\* one byte.
NativeUserHandles == {JNull, Data(<<>>), Data(<<1>>)}

\* The result of create(): the type and, of the response, the
\* attestationObject member.
CreateResult(attestationObject) ==
  [type |-> "public-key", response |-> [attestationObject |-> attestationObject]]

\* The result of get(): the type and, of the response, the userHandle member
\* (JUndef: the key is absent).
GetResult(userHandle) ==
  [type |-> "public-key", response |-> [userHandle |-> userHandle]]

\* The assertion branch: response["userHandle"] is assigned only under
\* `if let userHandle = credential.userID, !userHandle.isEmpty`.
IOS_assertionResult(credential) ==
  GetResult(IF credential.userID # JNull /\ credential.userID.v # <<>>
            THEN JStr(IOS_base64UrlEncode(credential.userID.v))
            ELSE JUndef)

\* The callback without its defer block: the guard's early return leaves the
\* slot as it is.
didCompleteWithAuthorization_NoDefer(st, ctrl, credential) ==
  IF credential.type = "registrationWithoutAttestation"
    THEN rejectCurrent(st, "Missing attestation object", "unknownError",
                       credential.type, ctrl)
  ELSE IF credential.type = "registration"
    THEN clearSlot(resolveCurrent(st, credential.type, ctrl))
  ELSE IF credential.type = "assertion"
    THEN clearSlot(resolveCurrent(formatted(st, IOS_assertionResult(credential)),
                                  credential.type, ctrl))
  ELSE clearSlot(rejectCurrent(st, "Unsupported credential type", "unknownError",
                               credential.type, ctrl))

\* authorizationController(controller:didCompleteWithAuthorization:)
didCompleteWithAuthorization(st, ctrl, credential) ==
  LET body ==
        IF credential.type = "registrationWithoutAttestation"
          THEN rejectCurrent(st, "Missing attestation object", "unknownError",
                             credential.type, ctrl)
        ELSE IF credential.type = "registration"
          THEN resolveCurrent(st, credential.type, ctrl)
        ELSE IF credential.type = "assertion"
          THEN resolveCurrent(formatted(st, IOS_assertionResult(credential)),
                              credential.type, ctrl)
        ELSE rejectCurrent(st, "Unsupported credential type", "unknownError",
                           credential.type, ctrl)
  IN  clearSlot(body)

\* The callback with the slot cleared first and the caller, kept in a local,
\* notified afterwards.
didCompleteWithError_ClearFirst(st, ctrl, error) ==
  LET m    == mapError(error)
      call == st.currentCall
      s1   == clearSlot(st)
  IN  IF call = Nil THEN s1 ELSE reject(s1, call, m[2], m[1], error, ctrl)

\* authorizationController(controller:didCompleteWithError:)
didCompleteWithError(st, ctrl, error) ==
  LET m  == mapError(error)
      s1 == rejectCurrent(st, m[2], m[1], error, ctrl)
  IN  clearSlot(s1)

(***************************************************************************)
(* Android adapter (PasskeysPlugin.kt).                                     *)
(***************************************************************************)

\* An exception leaves the plugin method: the call is left unsettled and the
\* exception goes to the bridge as it is.
escape(st, c, exception) == [st EXCEPT !.calls[c].escaped = exception]

\* JSONArray.getJSONObject(i), then getString("type") and getInt("alg") /
\* getString("id"): each throws JSONException when the entry is no object or
\* lacks the key.
ParamConverts(item) == IsObj(item) /\ IsStr(item.type) /\ item.alg.t = "num"
AllowConverts(item) == IsObj(item) /\ IsStr(item.type) /\ IsStr(item.id)

\* JSObject.getString(key): the string, or null when the key is absent or
\* holds no string.
getString(x) == IF IsStr(x) THEN x ELSE JUndef

\* call.getInt(key): the number or null.
getInt(x) == IF x.t = "num" THEN x ELSE JUndef

\* Step 2 of create with the defaults put after the supplied entries.
Android_pubKeyCredParams_DefaultsAppended(o) ==
  IF o.pubKeyCredParams.t = "arr"
  THEN JArr([i \in 1..Len(o.pubKeyCredParams.items) |->
               CredParam(o.pubKeyCredParams.items[i].type,
                         o.pubKeyCredParams.items[i].alg)]
            \o <<ES256, RS256>>)
  ELSE JArr(<<ES256, RS256>>)

\* Step 2 of create: every supplied entry rebuilt as {type, alg}, in order;
\* ES256 and RS256 when the app passed no array.
Android_pubKeyCredParams(o) ==
  IF o.pubKeyCredParams.t = "arr"
  THEN JArr([i \in 1..Len(o.pubKeyCredParams.items) |->
               CredParam(o.pubKeyCredParams.items[i].type,
                         o.pubKeyCredParams.items[i].alg)])
  ELSE JArr(<<ES256, RS256>>)

\* Step 3 of create with every sub-field the app left out taken from the
\* default triple.
Android_authenticatorSelection_FillDefaults(o) ==
  IF IsObj(o.authenticatorSelection)
  THEN AuthenticatorSelection(
         Coalesce(getString(o.authenticatorSelection.authenticatorAttachment),
                  JStr(<<"platform">>)),
         Coalesce(getString(o.authenticatorSelection.residentKey),
                  JStr(<<"required">>)),
         Coalesce(getString(o.authenticatorSelection.userVerification),
                  JStr(<<"required">>)))
  ELSE DefaultAuthenticatorSelection

\* Step 3 of create: the string sub-fields the app supplied, or the default
\* triple when the app passed no object.
Android_authenticatorSelection(o) ==
  IF IsObj(o.authenticatorSelection)
  THEN AuthenticatorSelection(
         getString(o.authenticatorSelection.authenticatorAttachment),
         getString(o.authenticatorSelection.residentKey),
         getString(o.authenticatorSelection.userVerification))
  ELSE DefaultAuthenticatorSelection

\* Step 4 of create with "none" put when the app passed no attestation.
Android_createRequestJson_AttestationNone(o) ==
  [challenge |-> o.challenge,
   rp |-> JObjRp(o.rp.id, o.rp.name),
   user |-> JObjUser(o.user.id, o.user.name, o.user.displayName),
   pubKeyCredParams |-> Android_pubKeyCredParams(o),
   authenticatorSelection |-> Android_authenticatorSelection(o),
   attestation |-> Coalesce(getString(o.attestation), JStr(<<"none">>)),
   timeout |-> getInt(o.timeout)]

\* Step 4 of create: requestJson.  A key that is not put is JUndef.
Android_createRequestJson(o) ==
  [challenge |-> o.challenge,
   rp |-> JObjRp(o.rp.id, o.rp.name),
   user |-> JObjUser(o.user.id, o.user.name, o.user.displayName),
   pubKeyCredParams |-> Android_pubKeyCredParams(o),
   authenticatorSelection |-> Android_authenticatorSelection(o),
   attestation |-> getString(o.attestation),
   timeout |-> getInt(o.timeout)]

\* The allowCredentials block of get: the key is put whenever the app passed
\* an array, each entry rebuilt as {type, id}.
Android_allowCredentials(o) ==
  IF o.allowCredentials.t = "arr"
  THEN JArr([i \in 1..Len(o.allowCredentials.items) |->
               AllowCredential(o.allowCredentials.items[i].type,
                               o.allowCredentials.items[i].id)])
  ELSE JUndef

\* Step 2 of get: requestJson.
Android_getRequestJson(o) ==
  [challenge |-> o.challenge,
   rpId |-> o.rpId,
   userVerification |-> IF IsStr(o.userVerification) THEN o.userVerification
                        ELSE JStr(<<"required">>),
   allowCredentials |-> Android_allowCredentials(o),
   timeout |-> getInt(o.timeout)]

\* What isGooglePlayServicesAvailable(context) does: it returns SUCCESS or
\* another result code, or it throws.
PlayServicesChecks == {"SUCCESS", "SERVICE_MISSING", "Exception"}

\* isSupported(call) with a catch block that yields true.
Android_isSupported_CatchTrue(st, c, apiLevelOk, check) ==
  LET hasPlayServices == IF check = "Exception" THEN TRUE ELSE check = "SUCCESS"
      supported       == apiLevelOk /\ hasPlayServices
  IN  resolve(formatted(st, IsSupportedResult(
                              supported,
                              [platformAuthenticatorAvailable |-> supported,
                               hasPlayServices |-> hasPlayServices])),
              c, "none", Nil)

\* isSupported(call): the API level, the Play Services check inside try /
\* catch, the result, call.resolve.
Android_isSupported(st, c, apiLevelOk, check) ==
  LET hasPlayServices == IF check = "Exception" THEN FALSE ELSE check = "SUCCESS"
      supported       == apiLevelOk /\ hasPlayServices
  IN  resolve(formatted(st, IsSupportedResult(
                              supported,
                              [platformAuthenticatorAvailable |-> supported,
                               hasPlayServices |-> hasPlayServices])),
              c, "none", Nil)

\* create(call): validation, the pubKeyCredParams loop, the activity check,
\* scope.launch.
Android_create(st, c, o, activity) ==
  IF ~IsStr(o.challenge)
    THEN reject(st, c, "Missing required parameter: challenge",
                "invalidRequest", "none", Nil)
  ELSE IF ~(IsObj(o.rp) /\ IsStr(o.rp.id) /\ IsStr(o.rp.name))
    THEN reject(st, c, "Missing required parameters: rp.id, rp.name",
                "invalidRequest", "none", Nil)
  ELSE IF ~(IsObj(o.user) /\ IsStr(o.user.id) /\ IsStr(o.user.name)
            /\ IsStr(o.user.displayName))
    THEN reject(st, c,
                "Missing required parameters: user.id, user.name, user.displayName",
                "invalidRequest", "none", Nil)
  ELSE IF /\ o.pubKeyCredParams.t = "arr"
          /\ \E i \in 1..Len(o.pubKeyCredParams.items) :
               ~ParamConverts(o.pubKeyCredParams.items[i])
    THEN escape(st, c, "JSONException")
  ELSE IF ~activity
    THEN reject(st, c, "Activity not available", "unknownError", "none", Nil)
  ELSE dispatch(handOver(st, Android_createRequestJson(o)), c, "registration")

\* get(call) without step 4's test of the activity: the coroutine is launched
\* whether or not there is one.
Android_get_NoActivityCheck(st, c, o, activity) ==
  IF ~IsStr(o.challenge)
    THEN reject(st, c, "Missing required parameter: challenge",
                "invalidRequest", "none", Nil)
  ELSE IF ~IsStr(o.rpId)
    THEN reject(st, c, "Missing required parameter: rpId",
                "invalidRequest", "none", Nil)
  ELSE IF /\ o.allowCredentials.t = "arr"
          /\ \E i \in 1..Len(o.allowCredentials.items) :
               ~AllowConverts(o.allowCredentials.items[i])
    THEN escape(st, c, "JSONException")
  ELSE dispatch(handOver(st, Android_getRequestJson(o)), c, "assertion")

\* get(call)
Android_get(st, c, o, activity) ==
  IF ~IsStr(o.challenge)
    THEN reject(st, c, "Missing required parameter: challenge",
                "invalidRequest", "none", Nil)
  ELSE IF ~IsStr(o.rpId)
    THEN reject(st, c, "Missing required parameter: rpId",
                "invalidRequest", "none", Nil)
  ELSE IF /\ o.allowCredentials.t = "arr"
          /\ \E i \in 1..Len(o.allowCredentials.items) :
               ~AllowConverts(o.allowCredentials.items[i])
    THEN escape(st, c, "JSONException")
  ELSE IF ~activity
    THEN reject(st, c, "Activity not available", "unknownError", "none", Nil)
  ELSE dispatch(handOver(st, Android_getRequestJson(o)), c, "assertion")

\* e.message of a Kotlin exception: null or a text.
NullMessage == "<null>"
NativeMessages == {NullMessage, "native message"}

\* The elvis operator without its right-hand side: the message as it is.
Elvis_NoFallback(message, fallback) == message

\* e.message ?: fallback
Elvis(message, fallback) == IF message = NullMessage THEN fallback ELSE message

AndroidCreateExceptions ==
  {"CreateCredentialCancellationException", "CreateCredentialInterruptedException",
   "CreateCredentialProviderConfigurationException",
   "CreateCredentialUnknownException", "CreateCredentialCustomException",
   "OtherCreateCredentialException"}

AndroidGetExceptions ==
  {"GetCredentialCancellationException", "NoCredentialException",
   "GetCredentialInterruptedException",
   "GetCredentialProviderConfigurationException",
   "GetCredentialUnknownException", "GetCredentialCustomException",
   "OtherGetCredentialException"}

\* mapCreateError(e) -> (code, message)
mapCreateError(e) ==
  CASE e.signal = "CreateCredentialCancellationException" ->
         <<"cancelled", "User cancelled the operation">>
    [] e.signal = "CreateCredentialInterruptedException" ->
         <<"cancelled", "Operation was interrupted">>
    [] e.signal = "CreateCredentialProviderConfigurationException" ->
         <<"notSupported", "Credential provider not configured">>
    [] e.signal = "CreateCredentialUnknownException" ->
         <<"unknownError", Elvis(e.message, "Unknown error")>>
    [] e.signal = "CreateCredentialCustomException" ->
         <<"unknownError", Elvis(e.message, "Custom error")>>
    [] OTHER ->
         <<"unknownError", Elvis(e.message, "Unknown error during credential creation")>>

\* The mapper without its cancellation case.
mapGetError_NoCancellation(e) ==
  CASE e.signal = "NoCredentialException" ->
         <<"noCredentials", "No matching credentials found">>
    [] e.signal = "GetCredentialInterruptedException" ->
         <<"cancelled", "Operation was interrupted">>
    [] e.signal = "GetCredentialProviderConfigurationException" ->
         <<"notSupported", "Credential provider not configured">>
    [] OTHER ->
         <<"unknownError", Elvis(e.message, "Unknown error during credential retrieval")>>

\* mapGetError(e) -> (code, message)
mapGetError(e) ==
  CASE e.signal = "GetCredentialCancellationException" ->
         <<"cancelled", "User cancelled the operation">>
    [] e.signal = "NoCredentialException" ->
         <<"noCredentials", "No matching credentials found">>
    [] e.signal = "GetCredentialInterruptedException" ->
         <<"cancelled", "Operation was interrupted">>
    [] e.signal = "GetCredentialProviderConfigurationException" ->
         <<"notSupported", "Credential provider not configured">>
    [] e.signal = "GetCredentialUnknownException" ->
         <<"unknownError", Elvis(e.message, "Unknown error")>>
    [] e.signal = "GetCredentialCustomException" ->
         <<"unknownError", Elvis(e.message, "Custom error")>>
    [] OTHER ->
         <<"unknownError", Elvis(e.message, "Unknown error during credential retrieval")>>

\* The body of create's scope.launch after createCredential returned or threw.
\* "MalformedResponseJson": the JSONObject parse of the response throws a
\* JSONException, which the last catch takes; so does the JSONException of
\* resp.getString("attestationObject") when the response has no such key.
Android_createCompleted(st, c, e) ==
  IF e.signal = "CreatePublicKeyCredentialResponse"
    THEN IF e.attestationObject = JUndef
           THEN reject(st, c, "No value for attestationObject", "unknownError",
                       e.signal, c)
         ELSE resolve(formatted(st, CreateResult(e.attestationObject)),
                      c, e.signal, c)
  ELSE IF e.signal = "OtherResponse"
    THEN reject(st, c, "Unexpected response type", "unknownError", e.signal, c)
  ELSE IF e.signal \in AndroidCreateExceptions
    THEN LET m == mapCreateError(e) IN reject(st, c, m[2], m[1], e.signal, c)
  ELSE IF e.signal = "SecurityException"
    THEN reject(st, c, "RP ID doesn't match Digital Asset Links configuration",
                "invalidDomain", e.signal, c)
  ELSE reject(st, c, Elvis(e.message, "Unknown error during credential creation"),
              "unknownError", e.signal, c)

\* Step 6 of get: userHandle is put only when the response JSON has the key,
\* it is not null and the string is not empty.
Android_getResult(e) ==
  GetResult(IF e.userHandle \notin {JUndef, JNull} /\ e.userHandle.v # <<>>
            THEN e.userHandle ELSE JUndef)

\* The body of get's scope.launch after getCredential returned or threw.
Android_getCompleted(st, c, e) ==
  IF e.signal = "PublicKeyCredential"
    THEN resolve(formatted(st, Android_getResult(e)), c, e.signal, c)
  ELSE IF e.signal = "OtherCredential"
    THEN reject(st, c, "Unexpected credential type", "unknownError", e.signal, c)
  ELSE IF e.signal \in AndroidGetExceptions
    THEN LET m == mapGetError(e) IN reject(st, c, m[2], m[1], e.signal, c)
  ELSE IF e.signal = "SecurityException"
    THEN reject(st, c, "RP ID doesn't match Digital Asset Links configuration",
                "invalidDomain", e.signal, c)
  ELSE reject(st, c, Elvis(e.message, "Unknown error during credential retrieval"),
              "unknownError", e.signal, c)

(***************************************************************************)
(* Web adapter (web.ts).                                                    *)
(***************************************************************************)

\* The browser as isSupported() finds it.  api: which of window,
\* window.PublicKeyCredential and navigator.credentials is the first one
\* undefined ("present": none).  uvpaa:
\* PublicKeyCredential.isUserVerifyingPlatformAuthenticatorAvailable is
\* absent, resolves true or false, or throws.
Browsers ==
  [api : {"noWindow", "noPublicKeyCredential", "noCredentials", "present"},
   uvpaa : {"absent", "true", "false", "Exception"}]

\* isSupported(): supported is fixed before the try block; the catch block is
\* empty.
Web_isSupported(st, c, browser) ==
  LET supported == browser.api = "present"
      platformAuthenticatorAvailable ==
        IF supported /\ browser.uvpaa # "absent"
        THEN (IF browser.uvpaa = "Exception" THEN FALSE
              ELSE browser.uvpaa = "true")
        ELSE FALSE
  IN  resolve(formatted(st, IsSupportedResult(
                              supported,
                              [platformAuthenticatorAvailable |->
                                 platformAuthenticatorAvailable])),
              c, "none", Nil)

\* x.replace(...) on a value that is no string throws a TypeError; atob() on
\* an undecodable text throws a DOMException (InvalidCharacterError).
\* "none": the conversion returns.
ArrayBufferThrow(x) ==
  IF ~IsStr(x) THEN "TypeError"
  ELSE IF ~base64UrlToArrayBuffer(x.v).ok THEN "InvalidCharacterError"
  ELSE "none"

\* The first of the throws, in evaluation order.
FirstThrow(throws) ==
  IF \E i \in 1..Len(throws) : throws[i] # "none"
  THEN throws[CHOOSE i \in 1..Len(throws) :
                /\ throws[i] # "none"
                /\ \A j \in 1..(i - 1) : throws[j] = "none"]
  ELSE "none"

\* toPublicKeyCredentialCreationOptions(options): what it throws ("none" when
\* it returns): challenge, then rp.id / rp.name, then user.id, ...
toPublicKeyCredentialCreationOptions(o) ==
  FirstThrow(<<ArrayBufferThrow(o.challenge),
               IF o.rp.t = "undef" THEN "TypeError" ELSE "none",
               IF o.user.t = "undef" THEN "TypeError"
               ELSE ArrayBufferThrow(o.user.id)>>)

\* toPublicKeyCredentialRequestOptions(options): what it throws.
toPublicKeyCredentialRequestOptions(o) ==
  FirstThrow(<<ArrayBufferThrow(o.challenge)>>
             \o (IF o.allowCredentials.t = "arr"
                 THEN [i \in 1..Len(o.allowCredentials.items) |->
                         IF IsObj(o.allowCredentials.items[i])
                         THEN ArrayBufferThrow(o.allowCredentials.items[i].id)
                         ELSE "TypeError"]
                 ELSE <<>>))

\* The object toPublicKeyCredentialCreationOptions returns.
PublicKeyCredentialCreationOptions(o) ==
  [challenge |-> base64UrlToArrayBuffer(o.challenge.v).bytes,
   rp |-> [id |-> o.rp.id, name |-> o.rp.name],
   user |-> [id |-> base64UrlToArrayBuffer(o.user.id.v).bytes,
             name |-> o.user.name, displayName |-> o.user.displayName],
   pubKeyCredParams |-> Coalesce(o.pubKeyCredParams, JArr(<<ES256, RS256>>)),
   timeout |-> o.timeout,
   authenticatorSelection |->
     Coalesce(o.authenticatorSelection, DefaultAuthenticatorSelection),
   attestation |-> Coalesce(o.attestation, JStr(<<"none">>))]

\* The allowCredentials block without its length test.
Web_allowCredentials_NoLengthTest(a) ==
  IF a.t = "arr"
  THEN JArr([i \in 1..Len(a.items) |->
               [type |-> a.items[i].type,
                id |-> base64UrlToArrayBuffer(a.items[i].id.v).bytes]])
  ELSE JUndef

\* options.allowCredentials && options.allowCredentials.length > 0: the
\* entries with their ids decoded; otherwise the key is never assigned.
Web_allowCredentials(a) ==
  IF a.t = "arr" /\ Len(a.items) > 0
  THEN JArr([i \in 1..Len(a.items) |->
               [type |-> a.items[i].type,
                id |-> base64UrlToArrayBuffer(a.items[i].id.v).bytes]])
  ELSE JUndef

\* The object toPublicKeyCredentialRequestOptions returns.
PublicKeyCredentialRequestOptions(o) ==
  [challenge |-> base64UrlToArrayBuffer(o.challenge.v).bytes,
   rpId |-> o.rpId,
   timeout |-> o.timeout,
   userVerification |-> Coalesce(o.userVerification, JStr(<<"required">>)),
   allowCredentials |-> Web_allowCredentials(o.allowCredentials)]

\* The async function rejects with the exception itself: no {code, message}.
throwRaw(st, c, exception) ==
  [st EXCEPT !.calls[c].settles =
     Append(@, Settlement("reject", FALSE, "", "", exception, Nil, st.currentCall))]

\* navigator.credentials.create / get is called at once (no queue).
callNavigator(st, c, kind) ==
  [st EXCEPT !.native = @ @@ (c :> NativeRequest(kind, "inflight", st))]

\* create(options) up to the await.
Web_create(st, c, o) ==
  LET thrown == toPublicKeyCredentialCreationOptions(o)
  IN  IF thrown # "none" THEN throwRaw(st, c, thrown)
      ELSE callNavigator(handOver(st, PublicKeyCredentialCreationOptions(o)),
                         c, "registration")

\* get(options) up to the await.
Web_get(st, c, o) ==
  LET thrown == toPublicKeyCredentialRequestOptions(o)
  IN  IF thrown # "none" THEN throwRaw(st, c, thrown)
      ELSE callNavigator(handOver(st, PublicKeyCredentialRequestOptions(o)),
                         c, "assertion")

\* What the browser call may throw: a DOMException by name, another Error, a
\* value that is no Error.
DOMExceptionNames ==
  {"AbortError", "NotAllowedError", "SecurityError", "InvalidStateError",
   "NotSupportedError", "OtherDOMException"}

\* The value thrown inside the try block by `throw this.createError(...)`.
PlainObject == "PlainObject"

\* handleWebAuthnError(error) -> {code, message}
handleWebAuthnError(error) ==
  IF error.signal \in DOMExceptionNames
  THEN CASE error.signal \in {"AbortError", "NotAllowedError"} ->
              <<"cancelled", "User cancelled the operation">>
         [] error.signal = "SecurityError" -> <<"securityError", error.message>>
         [] error.signal = "InvalidStateError" ->
              <<"invalidRequest", "Credential already exists for this user">>
         [] error.signal = "NotSupportedError" ->
              <<"notSupported", "WebAuthn not supported">>
         [] OTHER -> <<"unknownError", error.message>>
  ELSE IF error.signal = "Error" THEN <<"unknownError", error.message>>
  ELSE <<"unknownError", "Unknown error occurred">>

\* The catch block: throw this.handleWebAuthnError(error)
catchAndRethrow(st, c, error, signal) ==
  LET m == handleWebAuthnError(error) IN reject(st, c, m[2], m[1], signal, c)

\* formatCreateResult(credential): attestationObject is converted as it is;
\* new Uint8Array(undefined) has no bytes.
formatCreateResult(e) ==
  CreateResult(JStr(arrayBufferToBase64Url(
    IF e.attestationObject = JUndef THEN <<>> ELSE e.attestationObject.v)))

\* create(options) after the await: a credential, null, or a throw.
Web_createSettled(st, c, e) ==
  IF e.signal = "credential"
    THEN resolve(formatted(st, formatCreateResult(e)), c, e.signal, c)
  ELSE IF e.signal = "null"
    THEN catchAndRethrow(st, c, [signal |-> PlainObject,
                                 message |-> "Failed to create credential"],
                         e.signal)
  ELSE catchAndRethrow(st, c, e, e.signal)

\* formatGetResult(credential): `if (response.userHandle)` holds for every
\* ArrayBuffer, whatever its length, and fails for null.
formatGetResult(e) ==
  GetResult(IF e.userHandle # JNull
            THEN JStr(arrayBufferToBase64Url(e.userHandle.v))
            ELSE JUndef)

\* get(options) after the await.
Web_getSettled(st, c, e) ==
  IF e.signal = "credential"
    THEN resolve(formatted(st, formatGetResult(e)), c, e.signal, c)
  ELSE IF e.signal = "null"
    THEN catchAndRethrow(st, c, [signal |-> PlainObject,
                                 message |-> "No credential selected"],
                         e.signal)
  ELSE catchAndRethrow(st, c, e, e.signal)

(***************************************************************************)
(* The state machine.                                                       *)
(***************************************************************************)
NoOutcome == [signal |-> "none", message |-> ""]

Step(op, c, options, activity, outcome) ==
  [op |-> op, call |-> c, options |-> options, activity |-> activity,
   outcome |-> outcome, request |-> NoRequest, result |-> NoResult]

\* The bridge creates the call object and invokes the plugin method with it.
Begin(kind) == [PluginState EXCEPT !.calls = Append(@, NewCall(kind))]

NextCall == Len(calls) + 1

Commit(st, step) ==
  /\ calls' = st.calls
  /\ currentCall' = st.currentCall
  /\ authController' = st.authController
  /\ mainQueue' = st.mainQueue
  /\ native' = st.native
  /\ last' = [step EXCEPT !.request = st.request, !.result = st.result]
  /\ UNCHANGED <<platform, codec, server>>

\* The native request of call c is over.
Done(c) == [PluginState EXCEPT !.native[c].phase = "done"]

InFlight(kind) ==
  {c \in DOMAIN native : native[c].phase = "inflight" /\ native[c].kind = kind}

\* No helper call is in progress.
NoCodec == [phase |-> "idle"]

\* The example server is not part of this run.
NoServer == [phase |-> "idle"]

Init ==
  /\ platform \in Platforms
  /\ calls = <<>>
  /\ currentCall = Nil
  /\ authController = Nil
  /\ mainQueue = <<>>
  /\ native = <<>>
  /\ last = Step("init", Nil, NoOptions, TRUE, NoOutcome)
  /\ codec = NoCodec
  /\ server = NoServer

\* isSupported() on each adapter; the outcome of the step is what the
\* availability check met.
IOSIsSupported ==
  /\ platform = "ios"
  /\ Len(calls) < MaxCalls
  /\ \E available \in BOOLEAN :
       Commit(IOS_isSupported(Begin("isSupported"), NextCall, available),
              Step("isSupported", NextCall, NoOptions, TRUE,
                   [signal |-> "none", message |-> "", available |-> available]))

AndroidIsSupported ==
  /\ platform = "android"
  /\ Len(calls) < MaxCalls
  /\ \E apiLevelOk \in BOOLEAN, check \in PlayServicesChecks :
       Commit(Android_isSupported(Begin("isSupported"), NextCall, apiLevelOk, check),
              Step("isSupported", NextCall, NoOptions, TRUE,
                   [signal |-> check, message |-> "", apiLevelOk |-> apiLevelOk]))

WebIsSupported ==
  /\ platform = "web"
  /\ Len(calls) < MaxCalls
  /\ \E browser \in Browsers :
       Commit(Web_isSupported(Begin("isSupported"), NextCall, browser),
              Step("isSupported", NextCall, NoOptions, TRUE,
                   [signal |-> IF browser.api = "present" THEN browser.uvpaa
                               ELSE "none",
                    message |-> "", api |-> browser.api]))

IOSCreate ==
  /\ platform = "ios"
  /\ Len(calls) < MaxCalls
  /\ \E o \in CreateRequests :
       Commit(IOS_create(Begin("create"), NextCall, o),
              Step("create", NextCall, o, TRUE, NoOutcome))

IOSGet ==
  /\ platform = "ios"
  /\ Len(calls) < MaxCalls
  /\ \E o \in GetRequests :
       Commit(IOS_get(Begin("get"), NextCall, o),
              Step("get", NextCall, o, TRUE, NoOutcome))

\* The main queue runs the oldest block: controller.performRequests() on
\* iOS, the start of the coroutine up to createCredential / getCredential on
\* Android.
RunQueuedBlock ==
  /\ mainQueue # <<>>
  /\ LET c == Head(mainQueue)
     IN  Commit([PluginState EXCEPT !.mainQueue = Tail(@),
                                    !.native[c].phase = "inflight"],
                Step("performRequests", c, NoOptions, TRUE, NoOutcome))

\* The credential the authenticator returns for a request of this kind.
IOSCredentialsFor(kind) ==
  IF kind = "registration"
  THEN [type : {"registration", "registrationWithoutAttestation",
                "otherCredential"},
        userID : {JNull}]
  ELSE [type : {"assertion"}, userID : NativeUserHandles]
       \cup [type : {"otherCredential"}, userID : {JNull}]

IOSDidCompleteWithAuthorization ==
  /\ platform = "ios"
  /\ \E c \in DOMAIN native :
       /\ native[c].phase = "inflight"
       /\ \E credential \in IOSCredentialsFor(native[c].kind) :
            Commit(didCompleteWithAuthorization(Done(c), c, credential),
                   Step("didCompleteWithAuthorization", c, NoOptions, TRUE,
                        [signal |-> credential.type, message |-> "",
                         userHandle |-> credential.userID]))

IOSDidCompleteWithError ==
  /\ platform = "ios"
  /\ \E c \in DOMAIN native :
       /\ native[c].phase = "inflight"
       /\ \E error \in IOSErrors :
            Commit(didCompleteWithError(Done(c), c, error),
                   Step("didCompleteWithError", c, NoOptions, TRUE,
                        [signal |-> error, message |-> "localizedDescription"]))

AndroidCreate ==
  /\ platform = "android"
  /\ Len(calls) < MaxCalls
  /\ \E o \in CreateRequests, activity \in BOOLEAN :
       Commit(Android_create(Begin("create"), NextCall, o, activity),
              Step("create", NextCall, o, activity, NoOutcome))

AndroidGet ==
  /\ platform = "android"
  /\ Len(calls) < MaxCalls
  /\ \E o \in GetRequests, activity \in BOOLEAN :
       Commit(Android_get(Begin("get"), NextCall, o, activity),
              Step("get", NextCall, o, activity, NoOutcome))

AndroidCreateOutcomes ==
  {[signal |-> "CreatePublicKeyCredentialResponse", message |-> "",
    attestationObject |-> a] : a \in {JUndef, JStr(TxtAQ)}}
  \cup {[signal |-> "OtherResponse", message |-> ""]}
  \cup [signal : AndroidCreateExceptions
                 \cup {"SecurityException", "MalformedResponseJson", "Exception"},
        message : NativeMessages]

AndroidGetOutcomes ==
  {[signal |-> "PublicKeyCredential", message |-> "", userHandle |-> h] :
     h \in {JUndef, JNull, JStr(<<>>), JStr(TxtAQ)}}
  \cup {[signal |-> "OtherCredential", message |-> ""]}
  \cup [signal : AndroidGetExceptions
                 \cup {"SecurityException", "MalformedResponseJson", "Exception"},
        message : NativeMessages]

AndroidCreateCompleted ==
  /\ platform = "android"
  /\ \E c \in InFlight("registration"), e \in AndroidCreateOutcomes :
       Commit(Android_createCompleted(Done(c), c, e),
              Step("createCompleted", c, NoOptions, TRUE, e))

AndroidGetCompleted ==
  /\ platform = "android"
  /\ \E c \in InFlight("assertion"), e \in AndroidGetOutcomes :
       Commit(Android_getCompleted(Done(c), c, e),
              Step("getCompleted", c, NoOptions, TRUE, e))

WebCreate ==
  /\ platform = "web"
  /\ Len(calls) < MaxCalls
  /\ \E o \in CreateRequests :
       Commit(Web_create(Begin("create"), NextCall, o),
              Step("create", NextCall, o, TRUE, NoOutcome))

WebGet ==
  /\ platform = "web"
  /\ Len(calls) < MaxCalls
  /\ \E o \in GetRequests :
       Commit(Web_get(Begin("get"), NextCall, o),
              Step("get", NextCall, o, TRUE, NoOutcome))

WebOutcomes ==
  {[signal |-> "credential", message |-> ""], [signal |-> "null", message |-> ""],
   [signal |-> "NonError", message |-> ""]}
  \cup [signal : DOMExceptionNames \cup {"Error"}, message : {"", "native message"}]

\* What the browser's create() may end with: as WebOutcomes, the credential
\* with the attestationObject of its attestation response.
WebCreateOutcomes ==
  (WebOutcomes \ {[signal |-> "credential", message |-> ""]})
  \cup {[signal |-> "credential", message |-> "", attestationObject |-> a] :
          a \in {JUndef, Data(<<1>>)}}

WebCreateSettled ==
  /\ platform = "web"
  /\ \E c \in InFlight("registration"), e \in WebCreateOutcomes :
       Commit(Web_createSettled(Done(c), c, e),
              Step("createSettled", c, NoOptions, TRUE, e))

\* What the browser's get() may end with: as above, the credential with the
\* userHandle of its assertion response.
WebGetOutcomes ==
  (WebOutcomes \ {[signal |-> "credential", message |-> ""]})
  \cup {[signal |-> "credential", message |-> "", userHandle |-> h] :
          h \in NativeUserHandles}

WebGetSettled ==
  /\ platform = "web"
  /\ \E c \in InFlight("assertion"), e \in WebGetOutcomes :
       Commit(Web_getSettled(Done(c), c, e),
              Step("getSettled", c, NoOptions, TRUE, e))

Next ==
  \/ IOSIsSupported
  \/ AndroidIsSupported
  \/ WebIsSupported
  \/ IOSCreate
  \/ IOSGet
  \/ RunQueuedBlock
  \/ IOSDidCompleteWithAuthorization
  \/ IOSDidCompleteWithError
  \/ AndroidCreate
  \/ AndroidGet
  \/ AndroidCreateCompleted
  \/ AndroidGetCompleted
  \/ WebCreate
  \/ WebGet
  \/ WebCreateSettled
  \/ WebGetSettled

Spec == Init /\ [][Next]_vars

(***************************************************************************)
(* The base64url helpers on their own: a byte string is encoded by the      *)
(* adapter's encoder and the text is decoded by the adapter's decoder.      *)
(***************************************************************************)
MaxBytes == 4

\* Sample bytes: 251 and 255 give the characters '+' and '/' of the standard
\* alphabet.
ByteSamples == {0, 1, 251, 255}

\* Every byte string of the samples up to MaxBytes bytes: the empty one, and
\* the lengths 1, 2 and 0 mod 3.
ByteStrings == UNION {[1..n -> ByteSamples] : n \in 0..MaxBytes}

MaxChars == 4

\* Sample characters of the URL-safe alphabet: the sextets 0, 16, 17, 62, 63.
CharSamples == {"A", "Q", "R", "-", "_"}

\* Every text of the samples up to MaxChars characters: no padding, only the
\* URL-safe alphabet.
UrlSafeTexts == UNION {[1..n -> CharSamples] : n \in 0..MaxChars}

\* The adapter's encoder and decoder.
encode(bytes) ==
  CASE platform = "ios"     -> IOS_base64UrlEncode(bytes)
    [] platform = "android" -> Android_base64UrlEncode(bytes)
    [] OTHER                -> arrayBufferToBase64Url(bytes)

decode(text) ==
  CASE platform = "ios"     -> IOS_base64UrlDecode(text)
    [] platform = "android" -> Android_base64UrlDecode(text)
    [] OTHER                -> base64UrlToArrayBuffer(text)

CodecInit ==
  /\ platform \in Platforms
  /\ calls = <<>>
  /\ currentCall = Nil
  /\ authController = Nil
  /\ mainQueue = <<>>
  /\ native = <<>>
  /\ last = Step("init", Nil, NoOptions, TRUE, NoOutcome)
  /\ codec \in [phase : {"input"}, bytes : ByteStrings]
               \cup [phase : {"text"}, text : UrlSafeTexts]
  /\ server = NoServer

Encode ==
  /\ codec.phase = "input"
  /\ codec' = [phase |-> "encoded", bytes |-> codec.bytes,
               text |-> encode(codec.bytes)]
  /\ UNCHANGED <<platform, calls, currentCall, authController, mainQueue,
                 native, last, server>>

Decode ==
  /\ codec.phase = "encoded"
  /\ codec' = [phase |-> "decoded", bytes |-> codec.bytes, text |-> codec.text,
               decoded |-> decode(codec.text)]
  /\ UNCHANGED <<platform, calls, currentCall, authController, mainQueue,
                 native, last, server>>

\* The other way round: a text is decoded, and the bytes, if the decoder
\* gave any, are encoded again.
DecodeText ==
  /\ codec.phase = "text"
  /\ codec' = [phase |-> "textDecoded", text |-> codec.text,
               decoded |-> decode(codec.text)]
  /\ UNCHANGED <<platform, calls, currentCall, authController, mainQueue,
                 native, last, server>>

EncodeDecoded ==
  /\ codec.phase = "textDecoded"
  /\ codec.decoded.ok
  /\ codec' = [phase |-> "reencoded", text |-> codec.text,
               decoded |-> codec.decoded,
               reencoded |-> encode(codec.decoded.bytes)]
  /\ UNCHANGED <<platform, calls, currentCall, authController, mainQueue,
                 native, last, server>>

CodecNext ==
  \/ Encode
  \/ Decode
  \/ DecodeText
  \/ EncodeDecoded

SpecCodec == CodecInit /\ [][CodecNext]_vars

(***************************************************************************)
(* The example relying-party server (TASKS.md, the authentication flow).    *)
(***************************************************************************)

\* How many challenges the server issues in a run.
MaxChallenges == 4

\* generateAuthenticationOptions draws a fresh random challenge: the n-th one.
ChallengeNames == <<"c1", "c2", "c3", "c4", "c5", "c6">>

\* undefined: Map.get of a key that is not there, a variable never assigned.
NoChallenge == "undefined"

\* The clients that run a ceremony against the server.
Sessions == {"s1", "s2"}

\* The users Map after registration: alice and carol have one credential each.
Users == ("alice" :> <<"credA">>) @@ ("carol" :> <<"credC">>)

\* A key of the challenges Map is the username (prefix "") or
\* `anon_${options.challenge}`.
AnonKey(challenge) == [prefix |-> "anon_", rest |-> challenge]

\* challenges: a JavaScript Map, its entries in insertion order.
mapGet(m, key) ==
  IF \E i \in 1..Len(m) : m[i].key = key
  THEN m[CHOOSE i \in 1..Len(m) : m[i].key = key].value
  ELSE NoChallenge

mapSet(m, key, value) ==
  IF \E i \in 1..Len(m) : m[i].key = key
  THEN [i \in 1..Len(m) |->
          IF m[i].key = key THEN [key |-> key, value |-> value] ELSE m[i]]
  ELSE Append(m, [key |-> key, value |-> value])

\* findUserByCredentialId(credentialId): the user, or "" for undefined.
findUserByCredentialId(credentialId) ==
  IF \E u \in DOMAIN Users : \E i \in 1..Len(Users[u]) : Users[u][i] = credentialId
  THEN CHOOSE u \in DOMAIN Users :
         \E i \in 1..Len(Users[u]) : Users[u][i] = credentialId
  ELSE ""

\* The loop of /api/authenticate/verify over challenges.entries(): the first
\* key that starts with 'anon_', whatever challenge it holds; challengeKey
\* stays undefined when there is none.
firstAnonKey(m) ==
  IF \E i \in 1..Len(m) : m[i].key.prefix = "anon_"
  THEN m[CHOOSE i \in 1..Len(m) :
           /\ m[i].key.prefix = "anon_"
           /\ \A j \in 1..(i - 1) : m[j].key.prefix # "anon_"].key
  ELSE [prefix |-> "", rest |-> NoChallenge]

\* The request just served: the session it came from, the challenge that
\* session held, the status sent, the challenge the response was checked
\* against and the challenge deleted from the Map.
ServerStep(op, session, username, held, status, expected, deleted) ==
  [op |-> op, session |-> session, username |-> username, held |-> held,
   status |-> status, expected |-> expected, deleted |-> deleted]

\* POST /api/authenticate/options.  username "" is a request body without one.
authenticateOptions(srv, session, username) ==
  IF username # "" /\ (username \notin DOMAIN Users \/ Users[username] = <<>>)
  THEN [srv EXCEPT !.step = ServerStep("options", session, username,
                                       srv.held[session], 400,
                                       NoChallenge, NoChallenge)]
  ELSE LET challenge    == ChallengeNames[srv.issued + 1]
           challengeKey == IF username # ""
                           THEN [prefix |-> "", rest |-> username]
                           ELSE AnonKey(challenge)
       IN  [srv EXCEPT !.issued = @ + 1,
                       !.challenges = mapSet(@, challengeKey, challenge),
                       !.held[session] = challenge,
                       !.step = ServerStep("options", session, username,
                                           challenge, 200,
                                           NoChallenge, NoChallenge)]

\* POST /api/authenticate/verify.  credential: JUndef, or the id and the
\* challenge of its clientDataJSON; verified: what
\* verifyAuthenticationResponse says of the signature.  The library throws
\* when the challenge is not the expected one.
authenticateVerify(srv, session, username, credential, verified) ==
  LET answer(status, expected, deleted) ==
        ServerStep("verify", session, username, srv.held[session], status,
                   expected, deleted)
      user         == IF username # ""
                      THEN (IF username \in DOMAIN Users THEN username ELSE "")
                      ELSE findUserByCredentialId(credential.id)
      challengeKey == IF username # ""
                      THEN [prefix |-> "", rest |-> username]
                      ELSE firstAnonKey(srv.challenges)
      expectedChallenge == mapGet(srv.challenges, challengeKey)
  IN  IF credential = JUndef
        THEN [srv EXCEPT !.step = answer(400, NoChallenge, NoChallenge)]
      ELSE IF user = ""
        THEN [srv EXCEPT !.step = answer(400, NoChallenge, NoChallenge)]
      ELSE IF \A i \in 1..Len(Users[user]) : Users[user][i] # credential.id
        THEN [srv EXCEPT !.step = answer(400, NoChallenge, NoChallenge)]
      ELSE IF expectedChallenge = NoChallenge
        THEN [srv EXCEPT !.step = answer(400, NoChallenge, NoChallenge)]
      ELSE IF credential.challenge # expectedChallenge
        THEN [srv EXCEPT !.step = answer(400, expectedChallenge, NoChallenge)]
      ELSE IF verified
        THEN [srv EXCEPT !.challenges =
                           SelectSeq(@, LAMBDA e : e.key # challengeKey),
                         !.held[session] = NoChallenge,
                         !.step = answer(200, expectedChallenge,
                                         expectedChallenge)]
      ELSE [srv EXCEPT !.step = answer(400, expectedChallenge, NoChallenge)]

\* The server after start-up, users registered, no ceremony begun.
ServerInit ==
  /\ platform = "web"
  /\ calls = <<>>
  /\ currentCall = Nil
  /\ authController = Nil
  /\ mainQueue = <<>>
  /\ native = <<>>
  /\ last = Step("init", Nil, NoOptions, TRUE, NoOutcome)
  /\ codec = NoCodec
  /\ server = [phase |-> "running", challenges |-> <<>>, issued |-> 0,
               held |-> [s \in Sessions |-> NoChallenge],
               step |-> ServerStep("listen", "", "", NoChallenge, 0,
                                   NoChallenge, NoChallenge)]

\* A request with no username, with a registered one, with an unknown one.
AuthenticateOptions ==
  /\ server.issued < MaxChallenges
  /\ \E session \in Sessions, username \in {"", "alice", "bob"} :
       server' = authenticateOptions(server, session, username)
  /\ UNCHANGED <<platform, calls, currentCall, authController, mainQueue,
                 native, last, codec>>

\* A client answers with the challenge it holds, or sends no credential.
AuthenticateVerify ==
  /\ \E session \in Sessions, username \in {"", "alice", "bob"},
        id \in {"credA", "credC", "credX"}, verified \in BOOLEAN,
        sends \in BOOLEAN :
       server' = authenticateVerify(
                   server, session, username,
                   IF sends THEN [id |-> id, challenge |-> server.held[session]]
                   ELSE JUndef,
                   verified)
  /\ UNCHANGED <<platform, calls, currentCall, authController, mainQueue,
                 native, last, codec>>

ServerNext ==
  \/ AuthenticateOptions
  \/ AuthenticateVerify

SpecServer == ServerInit /\ [][ServerNext]_vars

(***************************************************************************)
(* Properties.                                                              *)
(***************************************************************************)
CallIds == 1..Len(calls)

Completions == {"didCompleteWithAuthorization", "didCompleteWithError"}

\* All settlements of all calls, with the call they settled.
Settlements ==
  UNION {{[call |-> c, s |-> calls[c].settles[i]] :
            i \in 1..Len(calls[c].settles)} : c \in CallIds}

SlotEmpty == currentCall = Nil /\ authController = Nil

\* The call was rejected once, by the handler itself, with this code.
RejectedLocally(c, code) ==
  /\ Len(calls[c].settles) = 1
  /\ calls[c].settles[1].how = "reject"
  /\ calls[c].settles[1].structured
  /\ calls[c].settles[1].code = code
  /\ calls[c].settles[1].origin = Nil

NoNativeRequest(c) == c \notin DOMAIN native

\* C1: on iOS, when a completion callback (didCompleteWithAuthorization on
\* any of its paths, or didCompleteWithError) has returned, the
\* pending-ceremony slot is empty: currentCall = nil and authController = nil.
C1_SlotEmptyAfterCompletion ==
  (platform = "ios" /\ last.op \in Completions) => SlotEmpty

\* C1 witness: the unsupported-type path has rejected the stored call and
\* returned with the slot empty.
C1_Witness ==
  /\ platform = "ios"
  /\ last.op = "didCompleteWithAuthorization"
  /\ last.outcome.signal = "otherCredential"
  /\ \E x \in Settlements : x.s.origin = last.call /\ x.s.signal = "otherCredential"
  /\ SlotEmpty

\* C2: every call that passed validation and was dispatched to the native
\* authenticator is resolved or rejected once every issued native request
\* has completed, also when a second ceremony is issued while the first is
\* pending.
C2_DispatchedCallsSettled ==
  (\A c \in DOMAIN native : native[c].phase = "done")
    => \A c \in DOMAIN native : calls[c].settles # <<>>

\* C3 as claimed: on every completion path the slot is already cleared when
\* the awaiting caller is notified.
C3_ClearedBeforeNotified ==
  platform = "ios" =>
    \A x \in Settlements : x.s.origin # Nil => x.s.slot = Nil

\* C3 as the code has it: on every completion path the caller is notified
\* while the slot still holds its call, and the slot is cleared after that,
\* before the callback returns.
C3_NotifiedThenCleared ==
  platform = "ios" =>
    /\ \A x \in Settlements : x.s.origin # Nil => x.s.slot = x.call
    /\ \A x \in Settlements :
         (x.s.origin # Nil /\ last.op \in Completions /\ last.call = x.s.origin)
           => SlotEmpty

\* C3 witness: didCompleteWithError has notified the stored call.
C3_Witness ==
  /\ platform = "ios"
  /\ last.op = "didCompleteWithError"
  /\ \E x \in Settlements : x.s.origin = last.call /\ x.s.slot = x.call
  /\ currentCall = Nil

\* C4: the slot is never overwritten while it still holds a pending call
\* (it holds at most one pending ceremony and loses none).
C4_SlotNeverOverwritten ==
  [][(currentCall # Nil /\ calls[currentCall].settles = <<>>)
       => currentCall' \in {currentCall, Nil}]_vars

\* C5: on iOS the awaiting call is stored in the slot, and the controller
\* retained, before performRequests() is issued for it: every native request
\* was handed to the main queue with the slot already set for its call.
C5_StoredBeforePerform ==
  platform = "ios" =>
    \A c \in DOMAIN native :
      native[c].slotAtDispatch = c /\ native[c].ctrlAtDispatch = c

\* C5 witness: a native request of get() is in flight.
C5_Witness ==
  /\ platform = "ios"
  /\ \E c \in DOMAIN native :
       /\ native[c].phase = "inflight"
       /\ native[c].kind = "assertion"
       /\ native[c].slotAtDispatch = c

\* C6: on every adapter, create() without a challenge fails with
\* invalidRequest and issues no native authenticator call.
C6_MissingChallengeRejected ==
  (last.op = "create" /\ last.options.challenge = JUndef)
    => RejectedLocally(last.call, "invalidRequest") /\ NoNativeRequest(last.call)

\* One of the six required fields of create() is absent.
MissingRequiredCreateField(o) ==
  \/ o.challenge = JUndef
  \/ o.rp = JUndef
  \/ o.rp.id = JUndef
  \/ o.rp.name = JUndef
  \/ o.user = JUndef
  \/ o.user.id = JUndef
  \/ o.user.name = JUndef
  \/ o.user.displayName = JUndef

\* C7: on iOS and Android, create() with any of challenge, rp.id, rp.name,
\* user.id, user.name, user.displayName absent is rejected with
\* invalidRequest and does not reach the native authenticator.
C7_MissingRequiredFieldRejected ==
  (/\ platform \in {"ios", "android"}
   /\ last.op = "create"
   /\ MissingRequiredCreateField(last.options))
    => RejectedLocally(last.call, "invalidRequest") /\ NoNativeRequest(last.call)

\* C8: on every adapter, get() with challenge absent or rpId absent is
\* rejected with invalidRequest before any native assertion request is
\* issued.
C8_GetMissingFieldRejected ==
  (/\ last.op = "get"
   /\ (last.options.challenge = JUndef \/ last.options.rpId = JUndef))
    => RejectedLocally(last.call, "invalidRequest") /\ NoNativeRequest(last.call)

\* C9: whenever create() or get() fails, the caller receives a structured
\* rejection whose code is one of the seven shared codes; no exception
\* raised while converting the request reaches the caller unmapped.
C9_FailuresStructured ==
  /\ \A c \in CallIds : calls[c].escaped = "none"
  /\ \A x \in Settlements :
       x.s.how = "reject" => (x.s.structured /\ x.s.code \in ErrorCodes)

CancellationSignals ==
  {"canceled", "CreateCredentialCancellationException",
   "GetCredentialCancellationException", "AbortError", "NotAllowedError"}

\* C10: for every native cancellation signal (iOS canceled, Android
\* Create/GetCredentialCancellationException, web AbortError and
\* NotAllowedError) the code delivered to the caller is exactly cancelled.
C10_CancellationMapsToCancelled ==
  /\ \A x \in Settlements :
       x.s.signal \in CancellationSignals
         => (x.s.how = "reject" /\ x.s.structured /\ x.s.code = "cancelled")
  /\ (platform # "ios" /\ last.outcome.signal \in CancellationSignals)
       => /\ Len(calls[last.call].settles) = 1
          /\ calls[last.call].settles[1].code = "cancelled"

\* C10 witness: a get() whose native request ended with
\* GetCredentialCancellationException was rejected with cancelled.
C10_Witness ==
  /\ platform = "android"
  /\ last.outcome.signal = "GetCredentialCancellationException"
  /\ calls[last.call].settles # <<>>
  /\ calls[last.call].settles[1].code = "cancelled"

\* Settlements that came out of a native request's completion carrying this
\* native signal, on a call of this kind.
SettledBy(kind, signal) ==
  {x \in Settlements : calls[x.call].kind = kind /\ x.s.signal = signal}

\* C11: on web, when the browser call resolves with null, get() is rejected
\* with the code noCredentials and create() with the code notSupported.
C11_NullCredentialCodes ==
  platform = "web" =>
    /\ \A x \in SettledBy("get", "null") :
         x.s.how = "reject" /\ x.s.code = "noCredentials"
    /\ \A x \in SettledBy("create", "null") :
         x.s.how = "reject" /\ x.s.code = "notSupported"

\* The native failures that mean the RP identifier failed the platform's
\* domain verification: Android's SecurityException (Digital Asset Links) and
\* the browser's SecurityError DOMException (rp.id is no suffix of the origin).
DomainVerificationSignals == {"SecurityException", "SecurityError"}

\* C12: on every adapter a native failure that means the RP identifier failed
\* domain / association verification is delivered to the caller with the code
\* invalidDomain and no other.
C12_DomainFailureIsInvalidDomain ==
  \A x \in Settlements :
    x.s.signal \in DomainVerificationSignals
      => (x.s.how = "reject" /\ x.s.code = "invalidDomain")

\* The native failures that reach a platform's error mapper: mapError (iOS),
\* mapCreateError / mapGetError (Android), handleWebAuthnError (web).
MappedSignals ==
  IOSErrors \cup AndroidCreateExceptions \cup AndroidGetExceptions
    \cup DOMExceptionNames \cup {"Error", "NonError"}

\* The step just taken handed a native failure to the platform's mapper.
MapperStep ==
  /\ last.op \in {"didCompleteWithError", "createCompleted", "getCompleted",
                  "createSettled", "getSettled"}
  /\ last.outcome.signal \in MappedSignals

\* What the mapper of the step just taken delivered.
Mapped == {x \in Settlements : x.s.origin = last.call}

\* The failure carries a native message.
NativeMessageAvailable(e) == e.message \notin {"", NullMessage}

\* The fixed messages of the mappers, by code.
FixedMessages ==
  [code \in ErrorCodes |->
     CASE code = "cancelled" ->
            {"User cancelled the operation", "Operation was interrupted"}
       [] code = "notSupported" ->
            {"Credential provider not configured", "WebAuthn not supported"}
       [] code = "noCredentials" ->
            {"No credentials available", "No matching credentials found"}
       [] code = "securityError" -> {"Authorization failed"}
       [] code = "invalidRequest" ->
            {"Invalid response from authenticator",
             "Credential already exists for this user"}
       [] code = "unknownError" ->
            {"Unknown error", "Custom error", "Unknown error occurred",
             "Unknown error during credential creation",
             "Unknown error during credential retrieval"}
       [] OTHER -> {}]

HandedOver(op, adapters) ==
  /\ platform \in adapters
  /\ last.op = op
  /\ last.request # NoRequest

\* C14: on web and Android, create() without pubKeyCredParams hands over a
\* request whose pubKeyCredParams is exactly ES256 (-7) then RS256 (-257);
\* with pubKeyCredParams supplied, the request carries the supplied entries
\* in the supplied order and no default entry.
C14_PubKeyCredParamsDefault ==
  HandedOver("create", {"web", "android"}) =>
    IF last.options.pubKeyCredParams = JUndef
    THEN last.request.pubKeyCredParams.items = <<ES256, RS256>>
    ELSE last.request.pubKeyCredParams.items = last.options.pubKeyCredParams.items

\* C14 witness: an Android create() that supplied [RS256, ES256] handed over
\* a request with exactly these two entries, in this order.
C14_Witness ==
  /\ HandedOver("create", {"android"})
  /\ last.options.pubKeyCredParams = JArr(<<RS256, ES256>>)
  /\ last.call \in DOMAIN native
  /\ last.request.pubKeyCredParams.items = <<RS256, ES256>>

\* C15: on web and Android, create() without authenticatorSelection hands
\* over the full default triple {platform, required, required}; with
\* authenticatorSelection supplied, even partially, the request carries only
\* the supplied sub-fields and leaves the others unset.
C15_AuthenticatorSelectionDefault ==
  HandedOver("create", {"web", "android"}) =>
    IF last.options.authenticatorSelection = JUndef
    THEN last.request.authenticatorSelection = DefaultAuthenticatorSelection
    ELSE last.request.authenticatorSelection = last.options.authenticatorSelection

\* C15 witness: an Android create() that supplied only userVerification =
\* preferred handed over a request with that sub-field and the two others
\* unset.
C15_Witness ==
  /\ HandedOver("create", {"android"})
  /\ last.options.authenticatorSelection =
       AuthenticatorSelection(JUndef, JUndef, JStr(<<"preferred">>))
  /\ last.request.authenticatorSelection.userVerification = JStr(<<"preferred">>)
  /\ last.request.authenticatorSelection.authenticatorAttachment = JUndef
  /\ last.request.authenticatorSelection.residentKey = JUndef

\* The user-verification requirement the request handed over carries:
\* userVerificationPreference of the iOS request, the userVerification member
\* of the Android request JSON and of the browser's request options.
RequestedUserVerification ==
  IF platform = "ios" THEN last.request.userVerificationPreference
  ELSE IF IsStr(last.request.userVerification)
    THEN last.request.userVerification.v[1]
  ELSE Unset

\* C16: on every adapter, get() called without userVerification hands over an
\* assertion request whose user-verification requirement is explicitly set to
\* required.
C16_UserVerificationRequired ==
  (HandedOver("get", Platforms) /\ last.options.userVerification = JUndef)
    => RequestedUserVerification = "required"

\* The assertion request this adapter builds from the options o.
AssertionRequestOf(o) ==
  CASE platform = "ios"     -> IOS_assertionRequest(o)
    [] platform = "android" -> Android_getRequestJson(o)
    [] OTHER                -> PublicKeyCredentialRequestOptions(o)

\* The options of the step just taken with allowCredentials left out.
AllowCredentialsOmitted == [last.options EXCEPT !.allowCredentials = JUndef]

\* The credentials the request handed over restricts the assertion to.
AllowedEntries ==
  IF platform = "ios"
  THEN IF last.request.allowedCredentials = Unset THEN <<>>
       ELSE last.request.allowedCredentials
  ELSE IF last.request.allowCredentials = JUndef THEN <<>>
       ELSE last.request.allowCredentials.items

\* The step just taken was a get() with allowCredentials = [] that handed a
\* request over.
EmptyAllowListHandedOver ==
  HandedOver("get", Platforms) /\ last.options.allowCredentials = JArr(<<>>)

\* C17 (as stated): on every adapter the assertion request built by get()
\* with allowCredentials = [] is identical to the one built with
\* allowCredentials omitted.
C17_EmptyListIdenticalToOmitted ==
  EmptyAllowListHandedOver
    => last.request = AssertionRequestOf(AllowCredentialsOmitted)

\* C17 (amended): on every adapter the assertion request built by get() with
\* allowCredentials = [] restricts the assertion to no credential; on iOS and
\* web it is identical to the request built with allowCredentials omitted,
\* on Android it differs from that request only by an allowCredentials
\* member holding an empty array.
C17_EmptyListRestrictsNothing ==
  EmptyAllowListHandedOver =>
    /\ AllowedEntries = <<>>
    /\ platform \in {"ios", "web"}
         => last.request = AssertionRequestOf(AllowCredentialsOmitted)
    /\ platform = "android"
         => /\ last.request.allowCredentials = JArr(<<>>)
            /\ [last.request EXCEPT !.allowCredentials = JUndef]
                 = AssertionRequestOf(AllowCredentialsOmitted)

\* C17 witness: a web get() with allowCredentials = [] handed over request
\* options without an allowCredentials member.
C17_Witness ==
  /\ platform = "web"
  /\ EmptyAllowListHandedOver
  /\ last.call \in DOMAIN native
  /\ last.request.allowCredentials = JUndef

\* The step just taken completed an assertion successfully and built the
\* result of get().
AssertionFormatted ==
  /\ last.op \in {"didCompleteWithAuthorization", "getCompleted", "getSettled"}
  /\ last.outcome.signal \in {"assertion", "PublicKeyCredential", "credential"}
  /\ last.result # NoResult

\* The user handle the native layer returned with the assertion is non-empty:
\* neither absent, nor null, nor of length zero.
NativeUserHandleNonEmpty ==
  /\ last.outcome.userHandle \notin {JUndef, JNull}
  /\ last.outcome.userHandle.v # <<>>

\* C18: on every adapter, when the native assertion response carries an
\* empty user handle the result of get() has no response.userHandle key; the
\* key is present exactly when the native handle is non-empty.
C18_UserHandleOnlyWhenNonEmpty ==
  AssertionFormatted =>
    (last.result.response.userHandle # JUndef <=> NativeUserHandleNonEmpty)

\* The step just taken was an isSupported() call, and the call was resolved
\* once and not rejected; no exception left the method.
IsSupportedResolved ==
  /\ calls[last.call].escaped = "none"
  /\ Len(calls[last.call].settles) = 1
  /\ calls[last.call].settles[1].how = "resolve"

\* An exception was thrown during the availability check of the step just
\* taken: by isGooglePlayServicesAvailable (Android), by
\* isUserVerifyingPlatformAuthenticatorAvailable (web).
ExceptionDuringCheck == last.outcome.signal = "Exception"

\* C19 (as stated): isSupported() always resolves and never rejects on every
\* adapter, and whenever an exception occurs during the availability check
\* the resolved result has supported = false.
C19_ExceptionMeansUnsupported ==
  last.op = "isSupported" =>
    /\ IsSupportedResolved
    /\ ExceptionDuringCheck => ~last.result.supported

\* C19 (amended): isSupported() always resolves and never rejects on every
\* adapter.  An exception during the availability check is swallowed: on
\* Android the result then has supported = false; on web it has
\* platformAuthenticatorAvailable = false, and supported tells, as without
\* the exception, whether the WebAuthn API is present.  On iOS supported
\* tells whether the OS is iOS 16 or later.
C19_IsSupportedAlwaysResolves ==
  last.op = "isSupported" =>
    /\ IsSupportedResolved
    /\ (platform = "android" /\ ExceptionDuringCheck) => ~last.result.supported
    /\ platform = "web" =>
         /\ last.result.supported = (last.outcome.api = "present")
         /\ ExceptionDuringCheck
              => ~last.result.details.platformAuthenticatorAvailable
    /\ platform = "ios" => last.result.supported = last.outcome.available

\* C19 witness: an Android isSupported() whose Play Services check threw was
\* resolved with supported = false.
C19_Witness ==
  /\ platform = "android"
  /\ last.op = "isSupported"
  /\ ExceptionDuringCheck
  /\ last.outcome.apiLevelOk
  /\ IsSupportedResolved
  /\ ~last.result.supported

\* The characters of text.
CharsOf(text) == {text[i] : i \in 1..Len(text)}

\* C20: for every byte string b, the empty one and the lengths 1, 2 and 0
\* mod 3 included, every adapter's decoder applied to its encoder's output
\* gives b back, and the encoder's output contains none of '+', '/', '='.
C20_DecodeEncodeRoundTrip ==
  /\ codec.phase \in {"encoded", "decoded"}
       => CharsOf(codec.text) \cap {"+", "/", "="} = {}
  /\ codec.phase = "decoded"
       => (codec.decoded.ok /\ codec.decoded.bytes = codec.bytes)

\* C20 witness: the two bytes 251, 255 were encoded to a text with the
\* URL-safe characters and decoded back to the same two bytes.
C20_Witness ==
  /\ codec.phase = "decoded"
  /\ codec.bytes = <<251, 255>>
  /\ codec.text = <<"-", "_", "8">>
  /\ codec.decoded.bytes = <<251, 255>>

\* The value of a character of the URL-safe alphabet.
UrlSextet(ch) == (CHOOSE i \in 1..64 : UrlSafeAlphabet[i] = ch) - 1

\* The text is the encoding of some byte string: its length is not 1 mod 4
\* and the bits of its last character that belong to no byte are zero.
Canonical(text) ==
  /\ Len(text) % 4 # 1
  /\ Len(text) % 4 = 2 => UrlSextet(text[Len(text)]) % 16 = 0
  /\ Len(text) % 4 = 3 => UrlSextet(text[Len(text)]) % 4 = 0

\* C21 (as stated): for every text t without padding characters and over the
\* URL-safe alphabet only, encode(decode(t)) equals t.
C21_EncodeDecodeRoundTrip ==
  /\ codec.phase = "textDecoded" => codec.decoded.ok
  /\ codec.phase = "reencoded" => codec.reencoded = codec.text

\* C21 (amended): for every text t without padding characters and over the
\* URL-safe alphabet only, encode(decode(t)) equals t exactly when t is the
\* encoding of a byte string (length not 1 mod 4, unused bits of the last
\* character zero); such a text is always decoded.
C21_CanonicalRoundTrip ==
  /\ (codec.phase = "textDecoded" /\ Canonical(codec.text)) => codec.decoded.ok
  /\ codec.phase = "reencoded"
       => (codec.reencoded = codec.text <=> Canonical(codec.text))

\* C21 witness: the text "-_Q" was decoded and encoded back to "-_Q".
C21_Witness ==
  /\ codec.phase = "reencoded"
  /\ codec.text = <<"-", "_", "Q">>
  /\ codec.reencoded = <<"-", "_", "Q">>

\* C22 (as stated): on web and Android, the adapters that forward
\* attestation, the registration request of a create() without attestation
\* carries no attestation value, and a supplied value is forwarded unchanged.
C22_AttestationPassThrough ==
  HandedOver("create", {"web", "android"})
    => last.request.attestation = last.options.attestation

\* C22 (amended): on web and Android a supplied attestation value is
\* forwarded unchanged; without one the Android request carries no
\* attestation member and the web request carries attestation = "none".
C22_AttestationForwarded ==
  HandedOver("create", {"web", "android"}) =>
    IF last.options.attestation # JUndef
    THEN last.request.attestation = last.options.attestation
    ELSE last.request.attestation =
           (IF platform = "android" THEN JUndef ELSE JStr(<<"none">>))

\* C22 witness: an Android create() with attestation = "direct" handed over
\* a request with attestation = "direct".
C22_Witness ==
  /\ HandedOver("create", {"android"})
  /\ last.options.attestation = JStr(<<"direct">>)
  /\ last.request.attestation = JStr(<<"direct">>)

\* The step just taken is the completion of a registration whose native
\* response carries no attestation payload.
AttestationMissing ==
  \/ /\ last.op = "didCompleteWithAuthorization"
     /\ last.outcome.signal = "registrationWithoutAttestation"
  \/ /\ last.op \in {"createCompleted", "createSettled"}
     /\ last.outcome.signal \in {"CreatePublicKeyCredentialResponse", "credential"}
     /\ last.outcome.attestationObject = JUndef

\* C23: on every adapter, a native registration response that lacks the
\* attestation payload makes create() fail with unknownError; the caller is not
\* resolved with a missing or empty attestationObject.
C23_MissingAttestationIsUnknownError ==
  AttestationMissing =>
    \A x \in Settlements :
      x.s.origin = last.call => x.s.how = "reject" /\ x.s.code = "unknownError"

\* The Android handler of the step just taken, run on the same options with an
\* activity present, hands a request to Credential Manager: the call has come
\* as far as the dispatch.
Android_ReachesDispatch ==
  /\ platform = "android"
  /\ last.op \in {"create", "get"}
  /\ (IF last.op = "create"
      THEN Android_create(PluginState, last.call, last.options, TRUE)
      ELSE Android_get(PluginState, last.call, last.options, TRUE)).request
       # NoRequest

\* C24: on Android, when the activity is unavailable at the moment a ceremony
\* would be dispatched, create()/get() reject exactly once with unknownError,
\* createCredential/getCredential is not invoked and no coroutine is launched;
\* a call rejected for the missing activity is never settled again.
C24_NoActivityRejectsWithoutDispatch ==
  /\ (Android_ReachesDispatch /\ ~last.activity) =>
       /\ RejectedLocally(last.call, "unknownError")
       /\ NoNativeRequest(last.call)
       /\ last.request = NoRequest
  /\ \A x \in Settlements :
       x.s.message = "Activity not available" =>
         /\ Len(calls[x.call].settles) = 1
         /\ NoNativeRequest(x.call)

\* C24 witness: a valid get() met no activity and was rejected with
\* unknownError, nothing being launched.
C24_Witness ==
  /\ Android_ReachesDispatch
  /\ last.op = "get"
  /\ ~last.activity
  /\ RejectedLocally(last.call, "unknownError")
  /\ calls[last.call].settles[1].message = "Activity not available"
  /\ NoNativeRequest(last.call)

\* A string that is no base64 text even after '-' and '_' are replaced and
\* padding is added: its length is 1 mod 4, or one of its characters is in
\* neither alphabet and is no '='.
Undecodable(x) ==
  /\ IsStr(x)
  /\ \/ Len(x.v) % 4 = 1
     \/ CharsOf(x.v) \ (CharsOf(UrlSafeAlphabet) \cup {"+", "/", "="}) # {}

\* The step just taken is an iOS create() whose challenge or user.id, or an
\* iOS get() whose challenge, is undecodable.
IOS_UndecodableInput ==
  /\ platform = "ios"
  /\ \/ /\ last.op = "create"
        /\ \/ Undecodable(last.options.challenge)
           \/ IsObj(last.options.user) /\ Undecodable(last.options.user.id)
     \/ last.op = "get" /\ Undecodable(last.options.challenge)

\* C25: on iOS, create() with an undecodable challenge or user.id, and get()
\* with an undecodable challenge, are rejected with invalidRequest before any
\* ASAuthorizationController is created or any native request performed.
C25_UndecodableRejectedBeforeController ==
  IOS_UndecodableInput =>
    /\ RejectedLocally(last.call, "invalidRequest")
    /\ NoNativeRequest(last.call)
    /\ last.request = NoRequest
    /\ authController # last.call
    /\ \A i \in 1..Len(mainQueue) : mainQueue[i] # last.call

\* C25 witness: create() with every field present and an undecodable user.id
\* was rejected for that encoding.
C25_Witness ==
  /\ platform = "ios"
  /\ last.op = "create"
  /\ IsObj(last.options.user) /\ Undecodable(last.options.user.id)
  /\ RejectedLocally(last.call, "invalidRequest")
  /\ calls[last.call].settles[1].message = "Invalid base64url encoding for user.id"
  /\ NoNativeRequest(last.call)

\* The step being taken is an iOS create() or get() that validation rejects:
\* the handler settles the new call itself and begins no ceremony.
IOS_ValidationRejects ==
  /\ platform = "ios"
  /\ last'.op \in {"create", "get"}
  /\ Len(calls') = Len(calls) + 1
  /\ calls'[last'.call].settles # <<>>
  /\ calls'[last'.call].settles[1].how = "reject"
  /\ calls'[last'.call].settles[1].origin = Nil

\* C26: on iOS, a create() or get() that validation rejects leaves currentCall
\* and authController exactly as they were before the call.
C26_ValidationRejectionFrame ==
  [][IOS_ValidationRejects =>
       /\ currentCall' = currentCall
       /\ authController' = authController
       /\ mainQueue' = mainQueue
       /\ native' = native]_vars

\* C26 witness: while an earlier ceremony occupies the slot, a get() has been
\* rejected by validation and the slot still holds the earlier call.
C26_Witness ==
  /\ platform = "ios"
  /\ last.op = "get"
  /\ RejectedLocally(last.call, "invalidRequest")
  /\ currentCall \notin {Nil, last.call}
  /\ authController = currentCall

\* C27: on iOS, for any interleaving of calls and completions, the result or
\* error delivered to a call is the outcome of the native request that this
\* same call issued; a completion is never delivered to the caller of another
\* ceremony.
C27_CompletionDeliveredToIssuer ==
  platform = "ios" =>
    \A x \in Settlements : x.s.origin # Nil => x.s.origin = x.call

\* C28: on every adapter, no create() or get() call is settled (resolved or
\* rejected) more than once.
C28_SettledAtMostOnce ==
  \A c \in 1..Len(calls) : Len(calls[c].settles) <= 1

\* C28 witness: two ceremonies were begun and both native requests have
\* completed; a call has been settled, and just once.
C28_Witness ==
  /\ Len(calls) = 2
  /\ DOMAIN native = {1, 2}
  /\ \A c \in DOMAIN native : native[c].phase = "done"
  /\ Len(calls[2].settles) = 1
  /\ calls[2].settles[1].origin # Nil

\* The ids of the caller's allowCredentials, decoded where they decode.
CallerCredentialIds(a) ==
  {IOS_base64UrlDecode(a.items[i].id.v).bytes :
     i \in {j \in 1..Len(a.items) :
              IsObj(a.items[j]) /\ IsStr(a.items[j].id)
              /\ IOS_base64UrlDecode(a.items[j].id.v).ok}}

\* C29: on iOS get() never widens the request: when the caller supplies a
\* non-empty allowCredentials, the native request carries a non-empty
\* allowedCredentials whose ids are all from the caller's list.
C29_AllowListNeverWidened ==
  (/\ HandedOver("get", {"ios"})
   /\ last.options.allowCredentials.t = "arr"
   /\ last.options.allowCredentials.items # <<>>)
    => /\ last.request.allowedCredentials # Unset
       /\ last.request.allowedCredentials # <<>>
       /\ \A i \in 1..Len(last.request.allowedCredentials) :
            last.request.allowedCredentials[i]
              \in CallerCredentialIds(last.options.allowCredentials)

\* The request just served is a verify of an anonymous session that holds a
\* challenge, and the server has looked an expected challenge up for it.
AnonymousVerifyChecked ==
  /\ server.phase = "running"
  /\ server.step.op = "verify"
  /\ server.step.username = ""
  /\ server.step.held # NoChallenge
  /\ server.step.expected # NoChallenge

\* C30: in the example server, /api/authenticate/verify checks the response of
\* an anonymous session against the challenge /api/authenticate/options issued
\* for that same session, and deletes only that session's challenge; it never
\* uses or consumes the challenge of another session.
C30_VerifyUsesOwnSessionChallenge ==
  AnonymousVerifyChecked =>
    /\ server.step.expected = server.step.held
    /\ server.step.deleted \in {NoChallenge, server.step.held}
====
